---- MODULE Spec2Model ----
(***************************************************************************)
(* Model of the pmpanel API client (api/pmpanel/pmpanel.go): construction  *)
(* (New, readLocalRuleList), the response classifier (parseResponse), the  *)
(* node and user parsers and the facade operations that talk to the panel  *)
(* through the resty transport.                                            *)
(*                                                                         *)
(* Representation:                                                         *)
(*  - Go nil (pointer, slice, error) is the record Nil.                    *)
(*  - An error built by fmt.Errorf is a record [kind, ...] holding the     *)
(*    format's fixed text as kind and its arguments as fields.             *)
(*  - A response body is a tagged record: "text" (bytes that are not       *)
(*    JSON), "null" (the JSON literal null), "object" (a JSON object with  *)
(*    the fields of NodeInfoResponse) or "array" (a JSON array of          *)
(*    UserResponse objects).                                               *)
(*  - A float64 speed (Mbit/s) is the integer number of 1/SpeedScale       *)
(*    Mbit/s, so fractional speeds and the truncation of the uint64        *)
(*    conversion are part of the model.                                    *)
(*  - The end of the process (panic, log.Fatalf) is phase "terminated".    *)
(***************************************************************************)
EXTENDS Integers, Sequences, FiniteSets, TLC

VARIABLES
    phase,      \* "start" | "ready" | "noclient" | "terminated"
    client,     \* the *APIClient returned by New, or Nil
    requests,   \* the requests handed to the transport, in order
    ncalls,     \* the number of facade calls made on the client
    last        \* the last call: its name, inputs and what it returned

vars == <<phase, client, requests, ncalls, last>>

---------------------------------------------------------------------------
(* Bounds of the model *)

MaxCalls == 2       \* facade calls after construction
MaxUsers == 2       \* length of a panel user list
MaxLines == 2       \* lines of a rule file
SpeedScale == 16    \* a speed value n stands for n/SpeedScale Mbit/s

BoundedSeq(S, n) == UNION {[1..k -> S] : k \in 0..n}

---------------------------------------------------------------------------
(* Values *)

Nil == [kind |-> "nil"]

\* a non-nil pointer to the slice v
Ptr(v) == [kind |-> "ptr", val |-> v]

NoCall == [op |-> "none"]

\* bufio.Scanner / regexp: the patterns a rule file line may hold; "(" does
\* not compile (missing closing parenthesis), "" compiles to the empty pattern
Lines == {"abc", "d.*e", "", "("}

InvalidPatterns == {"("}

\* a rule file as the loader sees it: whether os.Open succeeds, the lines the
\* scanner yields and whether the scanner then stops on a read error
Files ==
    [openErr : {TRUE}, lines : {<<>>}, scanErr : {FALSE}]
    \cup [openErr : {FALSE}, lines : BoundedSeq(Lines, MaxLines), scanErr : BOOLEAN]

Paths == {"", "/etc/nboard-node/rulelist"}

\* node type strings a configuration may carry
NodeTypes == {"Shadowsocks", "V2ray", "Trojan", "shadowsocks", "wireguard"}

APIHost == "https://panel"

SpeedOverrides == {-SpeedScale, 0, 1, SpeedScale}
DeviceOverrides == {-1, 0, 2}
PanelSpeeds == {0, 1, 2 * SpeedScale}
PanelDevices == {0, 1, 5}

\* UserResponse records (model.go): id, passwd, node_speedlimit, node_connector
UserResponses ==
    [ID : {1}, Passwd : {"pw1"}, SpeedLimit : PanelSpeeds, DeviceLimit : PanelDevices]
    \cup [ID : {2}, Passwd : {"pw2"}, SpeedLimit : PanelSpeeds, DeviceLimit : PanelDevices]

\* NodeInfoResponse records (model.go), the fields the parsers read
NodeInfoResponses ==
    [Port : {8443}, Method : {"aes-256-gcm"}, ServerKey : {"k1"},
     SpeedLimit : PanelSpeeds \cup {100 * SpeedScale}]

ZeroNodeInfoResponse == [Port |-> 0, Method |-> "", ServerKey |-> "", SpeedLimit |-> 0]

---------------------------------------------------------------------------
(* Construction *)

\* strings.ToLower on the node type strings of the model
ToLower(s) ==
    CASE s = "Shadowsocks" -> "shadowsocks"
      [] s = "V2ray" -> "v2ray"
      [] s = "Trojan" -> "trojan"
      [] OTHER -> s

\* regexp.MustCompile: the compiled pattern, or a panic
MustCompile(line) ==
    IF line \in InvalidPatterns
    THEN [panic |-> TRUE, re |-> Nil]
    ELSE [panic |-> FALSE, re |-> [expr |-> line]]

\* the scanning loop of readLocalRuleList: one rule per scanned line
RECURSIVE ScanLoop(_, _, _)
ScanLoop(lines, i, LocalRuleList) ==
    IF i > Len(lines)
    THEN [exit |-> "return", rules |-> LocalRuleList]
    ELSE LET m == MustCompile(lines[i]) IN
         IF m.panic
         THEN [exit |-> "panic: regexp", rules |-> LocalRuleList]
         ELSE ScanLoop(lines, i + 1,
                       Append(LocalRuleList, [ID |-> -1, Pattern |-> m.re]))

\* readLocalRuleList(path): exit is "return", or how the process ended;
\* opened tells whether os.Open was called
readLocalRuleList(path, file) ==
    IF path # ""
    THEN IF file.openErr
         THEN [exit |-> "return", rules |-> <<>>, opened |-> TRUE]
         ELSE LET s == ScanLoop(file.lines, 1, <<>>) IN
              IF s.exit # "return"
              THEN [exit |-> s.exit, rules |-> s.rules, opened |-> TRUE]
              ELSE IF file.scanErr
                   THEN [exit |-> "fatal: reading file", rules |-> s.rules, opened |-> TRUE]
                   ELSE [exit |-> "return", rules |-> s.rules, opened |-> TRUE]
    ELSE [exit |-> "return", rules |-> <<>>, opened |-> FALSE]

\* a New that tests the node type as configured, without lower-casing it
NewClient_NoLower(apiConfig, file) ==
    IF apiConfig.NodeType \notin {"shadowsocks", "v2ray", "trojan"}
    THEN [exit |-> "return", client |-> Nil]
    ELSE LET rl == readLocalRuleList(apiConfig.RuleListPath, file) IN
         IF rl.exit # "return"
         THEN [exit |-> rl.exit, client |-> Nil]
         ELSE [exit |-> "return",
               client |-> [APIHost |-> apiConfig.APIHost,
                           NodeID |-> apiConfig.NodeID,
                           NodeType |-> apiConfig.NodeType,
                           SpeedLimit |-> apiConfig.SpeedLimit,
                           DeviceLimit |-> apiConfig.DeviceLimit,
                           LocalRuleList |-> rl.rules]]

\* New(apiConfig): the client it returns (Nil for nil), or how the process ended
NewClient(apiConfig, file) ==
    LET nodeType == ToLower(apiConfig.NodeType) IN
    IF nodeType # "shadowsocks" /\ nodeType # "v2ray" /\ nodeType # "trojan"
    THEN [exit |-> "return", client |-> Nil]
    ELSE LET rl == readLocalRuleList(apiConfig.RuleListPath, file) IN
         IF rl.exit # "return"
         THEN [exit |-> rl.exit, client |-> Nil]
         ELSE [exit |-> "return",
               client |-> [APIHost |-> apiConfig.APIHost,
                           NodeID |-> apiConfig.NodeID,
                           NodeType |-> apiConfig.NodeType,
                           SpeedLimit |-> apiConfig.SpeedLimit,
                           DeviceLimit |-> apiConfig.DeviceLimit,
                           LocalRuleList |-> rl.rules]]

---------------------------------------------------------------------------
(* Response classifier *)

assembleURL(c, path) == c.APIHost \o path

\* a parseResponse whose switch has no case for 403
parseResponse_No403(c, res, path, err) ==
    IF err # Nil
    THEN [data |-> Nil,
          err |-> [kind |-> "request failed", url |-> assembleURL(c, path), cause |-> err]]
    ELSE IF res.StatusCode # 200
    THEN CASE res.StatusCode = 400 ->
                [data |-> Nil,
                 err |-> [kind |-> "bad request", url |-> assembleURL(c, path),
                          body |-> res.Body]]
           [] res.StatusCode = 401 ->
                [data |-> Nil,
                 err |-> [kind |-> "unauthorized", url |-> assembleURL(c, path),
                          body |-> res.Body]]
           [] OTHER ->
                [data |-> Nil,
                 err |-> [kind |-> "status code", url |-> assembleURL(c, path),
                          status |-> res.StatusCode, body |-> res.Body]]
    ELSE [data |-> res.Body, err |-> Nil]

\* parseResponse(res, path, err): (payload, error)
parseResponse(c, res, path, err) ==
    IF err # Nil
    THEN [data |-> Nil,
          err |-> [kind |-> "request failed", url |-> assembleURL(c, path), cause |-> err]]
    ELSE IF res.StatusCode # 200
    THEN CASE res.StatusCode = 400 ->
                [data |-> Nil,
                 err |-> [kind |-> "bad request", url |-> assembleURL(c, path),
                          body |-> res.Body]]
           [] res.StatusCode = 401 ->
                [data |-> Nil,
                 err |-> [kind |-> "unauthorized", url |-> assembleURL(c, path),
                          body |-> res.Body]]
           [] res.StatusCode = 403 ->
                [data |-> Nil,
                 err |-> [kind |-> "forbidden", url |-> assembleURL(c, path),
                          body |-> res.Body]]
           [] OTHER ->
                [data |-> Nil,
                 err |-> [kind |-> "status code", url |-> assembleURL(c, path),
                          status |-> res.StatusCode, body |-> res.Body]]
    ELSE [data |-> res.Body, err |-> Nil]

---------------------------------------------------------------------------
(* Parsers *)

\* uint64((v * 1000000) / 8) for the float64 v = n/SpeedScale, n >= 0:
\* the conversion to uint64 truncates
SpeedToBytes(n) == (n * 1000000) \div (8 * SpeedScale)

\* a Shadowsocks parser that adds the panel value to a positive override
ParseSSNodeResponse_Blend(c, nodeInfoResponse) ==
    LET speedLimit ==
            IF c.SpeedLimit > 0
            THEN SpeedToBytes(c.SpeedLimit) + SpeedToBytes(nodeInfoResponse.SpeedLimit)
            ELSE SpeedToBytes(nodeInfoResponse.SpeedLimit)
    IN [nodeInfo |-> [NodeType |-> c.NodeType,
                      NodeID |-> c.NodeID,
                      Port |-> nodeInfoResponse.Port,
                      SpeedLimit |-> speedLimit,
                      TransportProtocol |-> "tcp",
                      CypherMethod |-> nodeInfoResponse.Method,
                      ServerKey |-> nodeInfoResponse.ServerKey],
        err |-> Nil]

ParseSSNodeResponse(c, nodeInfoResponse) ==
    LET speedLimit ==
            IF c.SpeedLimit > 0
            THEN SpeedToBytes(c.SpeedLimit)
            ELSE SpeedToBytes(nodeInfoResponse.SpeedLimit)
    IN [nodeInfo |-> [NodeType |-> c.NodeType,
                      NodeID |-> c.NodeID,
                      Port |-> nodeInfoResponse.Port,
                      SpeedLimit |-> speedLimit,
                      TransportProtocol |-> "tcp",
                      CypherMethod |-> nodeInfoResponse.Method,
                      ServerKey |-> nodeInfoResponse.ServerKey],
        err |-> Nil]

\* the body of ParseV2rayNodeResponse is commented out: return nil, nil
ParseV2rayNodeResponse(c, nodeInfoResponse) == [nodeInfo |-> Nil, err |-> Nil]

\* the body of ParseTrojanNodeResponse is commented out: return nil, nil
ParseTrojanNodeResponse(c, nodeInfoResponse) == [nodeInfo |-> Nil, err |-> Nil]

\* limits whose device choice tests the speed override
UserLimits_Coupled(c, user, deviceLimit, speedLimit) ==
    [deviceLimit |-> IF c.SpeedLimit > 0 THEN c.DeviceLimit ELSE user.DeviceLimit,
     speedLimit |-> IF c.SpeedLimit > 0
                    THEN SpeedToBytes(c.SpeedLimit)
                    ELSE SpeedToBytes(user.SpeedLimit)]

\* limits that keep the previous iteration's device limit for a user
\* whose panel device limit is zero
UserLimits_Carry(c, user, deviceLimit, speedLimit) ==
    [deviceLimit |-> IF c.DeviceLimit > 0 THEN c.DeviceLimit
                     ELSE IF user.DeviceLimit > 0 THEN user.DeviceLimit
                     ELSE deviceLimit,
     speedLimit |-> IF c.SpeedLimit > 0
                    THEN SpeedToBytes(c.SpeedLimit)
                    ELSE SpeedToBytes(user.SpeedLimit)]

\* the two if statements of the loop of ParseUserListResponse; deviceLimit
\* and speedLimit are the variables declared before the loop, as the
\* previous iteration left them
UserLimits(c, user, deviceLimit, speedLimit) ==
    [deviceLimit |-> IF c.DeviceLimit > 0 THEN c.DeviceLimit ELSE user.DeviceLimit,
     speedLimit |-> IF c.SpeedLimit > 0
                    THEN SpeedToBytes(c.SpeedLimit)
                    ELSE SpeedToBytes(user.SpeedLimit)]

RECURSIVE UserLoop(_, _, _, _, _, _)
UserLoop(c, users, i, deviceLimit, speedLimit, userList) ==
    IF i > Len(users)
    THEN userList
    ELSE LET user == users[i]
             l == UserLimits(c, user, deviceLimit, speedLimit)
         IN UserLoop(c, users, i + 1, l.deviceLimit, l.speedLimit,
                     Append(userList, [UID |-> user.ID,
                                       Passwd |-> user.Passwd,
                                       UUID |-> user.Passwd,
                                       SpeedLimit |-> l.speedLimit,
                                       DeviceLimit |-> l.deviceLimit]))

\* ParseUserListResponse(userInfoResponse): userInfoResponse is a pointer
\* to a slice; len(*userInfoResponse) on a nil pointer panics
ParseUserListResponse(c, userInfoResponse) ==
    IF userInfoResponse = Nil
    THEN [panic |-> TRUE, userList |-> Nil, err |-> Nil]
    ELSE [panic |-> FALSE,
          userList |-> Ptr(UserLoop(c, userInfoResponse.val, 1, 0, 0, <<>>)),
          err |-> Nil]

---------------------------------------------------------------------------
(* json.Unmarshal of a response body *)

\* into the *NodeInfoResponse made by new(NodeInfoResponse): null leaves the
\* zero struct untouched
UnmarshalNodeInfo(data) ==
    CASE data.tag = "object" -> [val |-> data.obj, err |-> Nil]
      [] data.tag = "null" -> [val |-> ZeroNodeInfoResponse, err |-> Nil]
      [] OTHER -> [val |-> ZeroNodeInfoResponse, err |-> [kind |-> "json", tag |-> data.tag]]

\* into &userListResponse, a **[]UserResponse holding nil: null leaves the
\* pointer nil
UnmarshalUserList(data) ==
    CASE data.tag = "array" -> [val |-> Ptr(data.arr), err |-> Nil]
      [] data.tag = "null" -> [val |-> Nil, err |-> Nil]
      [] OTHER -> [val |-> Nil, err |-> [kind |-> "json", tag |-> data.tag]]

---------------------------------------------------------------------------
(* The transport (resty): what one request comes back with *)

TransportError == [kind |-> "transport", cause |-> "timeout"]

Response(status, body) == [res |-> [StatusCode |-> status, Body |-> body], err |-> Nil]

Failed == [res |-> Nil, err |-> TransportError]

TextBody == [tag |-> "text"]
NullBody == [tag |-> "null"]
ObjectBody(o) == [tag |-> "object", obj |-> o]
ArrayBody(a) == [tag |-> "array", arr |-> a]

\* outcomes the facade calls draw from
FacadeBodies ==
    {TextBody, NullBody,
     ObjectBody([Port |-> 8443, Method |-> "aes-256-gcm", ServerKey |-> "k1",
                 SpeedLimit |-> 100 * SpeedScale]),
     ArrayBody(<<[ID |-> 1, Passwd |-> "pw1", SpeedLimit |-> 1, DeviceLimit |-> 5],
                 [ID |-> 2, Passwd |-> "pw2", SpeedLimit |-> 0, DeviceLimit |-> 0]>>)}

FacadeOutcomes ==
    {Failed} \cup {Response(200, b) : b \in FacadeBodies} \cup {Response(403, TextBody)}

\* outcomes the classifier is applied to
StatusCodes == {200, 201, 400, 401, 403, 404, 500}

ClassifierOutcomes ==
    {Failed} \cup {Response(s, b) : s \in StatusCodes, b \in {TextBody, NullBody}}

RequestPaths ==
    {"/api/node/config", "/api/node/user", "/api/node/status",
     "/api/node/user/online", "/api/node/user/traffic"}

---------------------------------------------------------------------------
(* Facade operations: what they return *)

\* GetNodeInfo, after the request came back with out
GetNodeInfoRet(c, out) ==
    LET path == "/api/node/config" IN
    IF out.err # Nil
    THEN [nodeInfo |-> Nil, err |-> out.err]
    ELSE LET pr == parseResponse(c, out.res, path, out.err) IN
         IF pr.err # Nil
         THEN [nodeInfo |-> Nil, err |-> pr.err]
         ELSE LET um == UnmarshalNodeInfo(pr.data) IN
              IF um.err # Nil
              THEN [nodeInfo |-> Nil,
                    err |-> [kind |-> "unmarshal failed",
                             type |-> "*pmpanel.NodeInfoResponse", cause |-> um.err]]
              ELSE IF c.NodeType \notin {"V2ray", "Trojan", "Shadowsocks"}
              THEN [nodeInfo |-> Nil,
                    err |-> [kind |-> "unsupported Node type", nodeType |-> c.NodeType]]
              ELSE LET parsed ==
                           CASE c.NodeType = "V2ray" -> ParseV2rayNodeResponse(c, um.val)
                             [] c.NodeType = "Trojan" -> ParseTrojanNodeResponse(c, um.val)
                             [] c.NodeType = "Shadowsocks" -> ParseSSNodeResponse(c, um.val)
                   IN IF parsed.err # Nil
                      THEN [nodeInfo |-> Nil,
                            err |-> [kind |-> "Parse node info failed",
                                     response |-> um.val, cause |-> parsed.err]]
                      ELSE [nodeInfo |-> parsed.nodeInfo, err |-> Nil]

\* GetUserList, after the request came back with out; panic when the
\* parser dereferences the nil list
GetUserListRet(c, out) ==
    LET path == "/api/node/user"
        pr == parseResponse(c, out.res, path, out.err)
    IN IF pr.err # Nil
       THEN [panic |-> FALSE, UserList |-> Nil, err |-> pr.err]
       ELSE LET um == UnmarshalUserList(pr.data) IN
            IF um.err # Nil
            THEN [panic |-> FALSE, UserList |-> Nil,
                  err |-> [kind |-> "unmarshal failed",
                           type |-> "*[]pmpanel.UserResponse", cause |-> um.err]]
            ELSE LET parsed == ParseUserListResponse(c, um.val) IN
                 IF parsed.panic
                 THEN [panic |-> TRUE, UserList |-> Nil, err |-> Nil]
                 ELSE IF parsed.err # Nil
                 THEN [panic |-> FALSE, UserList |-> Nil,
                       err |-> [kind |-> "parse user list failed", response |-> um.val]]
                 ELSE [panic |-> FALSE, UserList |-> parsed.userList, err |-> Nil]

---------------------------------------------------------------------------
(* Construction and the facade calls *)

\* api.Config values handed to New
Configs ==
    [APIHost : {APIHost}, NodeID : {"7"}, NodeType : NodeTypes,
     SpeedLimit : {0, SpeedScale}, DeviceLimit : {0, 2},
     RuleListPath : Paths, Timeout : {0, 10}]

\* rule files present when New runs
ConfigFiles ==
    {[openErr |-> TRUE, lines |-> <<>>, scanErr |-> FALSE],
     [openErr |-> FALSE, lines |-> <<"abc", "d.*e">>, scanErr |-> FALSE],
     [openErr |-> FALSE, lines |-> <<"abc", "(">>, scanErr |-> FALSE],
     [openErr |-> FALSE, lines |-> <<"abc", "d.*e">>, scanErr |-> TRUE]}

NodeStatuses == {[CPU |-> 10, Mem |-> 20, Disk |-> 30, Uptime |-> 40]}
OnlineUserLists == {<<>>, <<[UID |-> 1, IP |-> "10.0.0.1"]>>}
UserTrafficLists == {<<>>, <<[UID |-> 1, Upload |-> 100, Download |-> 200]>>}
DetectResultLists == {<<>>, <<[UID |-> 1, RuleID |-> -1]>>}

Init ==
    /\ phase = "start"
    /\ client = Nil
    /\ requests = <<>>
    /\ ncalls = 0
    /\ last = NoCall

New(apiConfig, file) ==
    /\ phase = "start"
    /\ LET r == NewClient(apiConfig, file) IN
       /\ client' = r.client
       /\ phase' = IF r.exit # "return" THEN "terminated"
                   ELSE IF r.client = Nil THEN "noclient"
                   ELSE "ready"
       /\ last' = [op |-> "New", apiConfig |-> apiConfig, file |-> file,
                   exit |-> r.exit, ret |-> r.client]
    /\ UNCHANGED <<requests, ncalls>>

GetNodeInfo(out) ==
    /\ phase = "ready"
    /\ ncalls < MaxCalls
    /\ requests' = Append(requests, [method |-> "GET", path |-> "/api/node/config",
                                     body |-> Nil])
    /\ ncalls' = ncalls + 1
    /\ last' = [op |-> "GetNodeInfo", out |-> out, exit |-> "return",
                ret |-> GetNodeInfoRet(client, out)]
    /\ UNCHANGED <<phase, client>>

GetUserList(out) ==
    /\ phase = "ready"
    /\ ncalls < MaxCalls
    /\ requests' = Append(requests, [method |-> "GET", path |-> "/api/node/user",
                                     body |-> Nil])
    /\ ncalls' = ncalls + 1
    /\ LET r == GetUserListRet(client, out) IN
       /\ phase' = IF r.panic THEN "terminated" ELSE phase
       /\ last' = [op |-> "GetUserList", out |-> out,
                   exit |-> IF r.panic THEN "panic: nil pointer dereference" ELSE "return",
                   ret |-> [UserList |-> r.UserList, err |-> r.err]]
    /\ UNCHANGED client

ReportNodeStatus(nodeStatus, out) ==
    /\ phase = "ready"
    /\ ncalls < MaxCalls
    /\ LET data == [CPU |-> nodeStatus.CPU, Mem |-> nodeStatus.Mem,
                    Disk |-> nodeStatus.Disk, Uptime |-> nodeStatus.Uptime]
           path == "/api/node/status"
           pr == parseResponse(client, out.res, path, out.err)
       IN /\ requests' = Append(requests, [method |-> "POST", path |-> path, body |-> data])
          /\ last' = [op |-> "ReportNodeStatus", in |-> nodeStatus, out |-> out,
                      exit |-> "return", ret |-> [err |-> pr.err]]
    /\ ncalls' = ncalls + 1
    /\ UNCHANGED <<phase, client>>

\* a ReportNodeOnlineUsers that returns early, without a request, when no
\* user is online
ReportNodeOnlineUsers_SkipEmpty(onlineUserList, out) ==
    /\ phase = "ready"
    /\ ncalls < MaxCalls
    /\ LET data == [i \in 1..Len(onlineUserList) |->
                        [UID |-> onlineUserList[i].UID, IP |-> onlineUserList[i].IP]]
           postData == [Online |-> data]
           path == "/api/node/user/online"
           pr == parseResponse(client, out.res, path, out.err)
       IN /\ requests' = IF Len(onlineUserList) = 0 THEN requests
                         ELSE Append(requests, [method |-> "POST", path |-> path,
                                                body |-> postData])
          /\ last' = [op |-> "ReportNodeOnlineUsers", in |-> onlineUserList, out |-> out,
                      exit |-> "return",
                      ret |-> [err |-> IF Len(onlineUserList) = 0 THEN Nil ELSE pr.err]]
    /\ ncalls' = ncalls + 1
    /\ UNCHANGED <<phase, client>>

ReportNodeOnlineUsers(onlineUserList, out) ==
    /\ phase = "ready"
    /\ ncalls < MaxCalls
    /\ LET data == [i \in 1..Len(onlineUserList) |->
                        [UID |-> onlineUserList[i].UID, IP |-> onlineUserList[i].IP]]
           postData == [Online |-> data]
           path == "/api/node/user/online"
           pr == parseResponse(client, out.res, path, out.err)
       IN /\ requests' = Append(requests, [method |-> "POST", path |-> path,
                                           body |-> postData])
          /\ last' = [op |-> "ReportNodeOnlineUsers", in |-> onlineUserList, out |-> out,
                      exit |-> "return", ret |-> [err |-> pr.err]]
    /\ ncalls' = ncalls + 1
    /\ UNCHANGED <<phase, client>>

ReportUserTraffic(userTraffic, out) ==
    /\ phase = "ready"
    /\ ncalls < MaxCalls
    /\ LET data == [i \in 1..Len(userTraffic) |->
                        [UID |-> userTraffic[i].UID,
                         Upload |-> userTraffic[i].Upload,
                         Download |-> userTraffic[i].Download]]
           postData == [Traffic |-> data]
           path == "/api/node/user/traffic"
           pr == parseResponse(client, out.res, path, out.err)
       IN /\ requests' = Append(requests, [method |-> "POST", path |-> path,
                                           body |-> postData])
          /\ last' = [op |-> "ReportUserTraffic", in |-> userTraffic, out |-> out,
                      exit |-> "return", ret |-> [err |-> pr.err]]
    /\ ncalls' = ncalls + 1
    /\ UNCHANGED <<phase, client>>

GetNodeRule ==
    /\ phase = "ready"
    /\ ncalls < MaxCalls
    /\ LET ruleList == client.LocalRuleList IN
       last' = [op |-> "GetNodeRule", exit |-> "return",
                ret |-> [ruleList |-> Ptr(ruleList), err |-> Nil]]
    /\ ncalls' = ncalls + 1
    /\ UNCHANGED <<phase, client, requests>>

ReportIllegal(detectResultList) ==
    /\ phase = "ready"
    /\ ncalls < MaxCalls
    /\ last' = [op |-> "ReportIllegal", in |-> detectResultList, exit |-> "return",
                ret |-> [err |-> Nil]]
    /\ ncalls' = ncalls + 1
    /\ UNCHANGED <<phase, client, requests>>

Next ==
    \/ \E apiConfig \in Configs, file \in ConfigFiles : New(apiConfig, file)
    \/ \E out \in FacadeOutcomes : GetNodeInfo(out)
    \/ \E out \in FacadeOutcomes : GetUserList(out)
    \/ \E nodeStatus \in NodeStatuses, out \in FacadeOutcomes :
          ReportNodeStatus(nodeStatus, out)
    \/ \E onlineUserList \in OnlineUserLists, out \in FacadeOutcomes :
          ReportNodeOnlineUsers(onlineUserList, out)
    \/ \E userTraffic \in UserTrafficLists, out \in FacadeOutcomes :
          ReportUserTraffic(userTraffic, out)
    \/ GetNodeRule
    \/ \E detectResultList \in DetectResultLists : ReportIllegal(detectResultList)

Spec == Init /\ [][Next]_vars

---------------------------------------------------------------------------
(* The classifier, the parsers and the rule loader, each applied once to   *)
(* drawn inputs                                                            *)

\* clients the parsers run on
ParserClients ==
    [APIHost : {APIHost}, NodeID : {"7"}, NodeType : {"Shadowsocks"},
     SpeedLimit : SpeedOverrides, DeviceLimit : DeviceOverrides,
     LocalRuleList : {<<>>}]

InitParsers ==
    /\ phase = "ready"
    /\ client \in ParserClients
    /\ requests = <<>>
    /\ ncalls = 0
    /\ last = NoCall

CallParseResponse(path, out) ==
    /\ last = NoCall
    /\ last' = [op |-> "parseResponse", path |-> path, out |-> out,
                ret |-> parseResponse(client, out.res, path, out.err)]
    /\ UNCHANGED <<phase, client, requests, ncalls>>

CallParseUserListResponse(userInfoResponse) ==
    /\ last = NoCall
    /\ last' = [op |-> "ParseUserListResponse", in |-> userInfoResponse,
                ret |-> ParseUserListResponse(client, Ptr(userInfoResponse))]
    /\ UNCHANGED <<phase, client, requests, ncalls>>

CallParseSSNodeResponse(nodeInfoResponse) ==
    /\ last = NoCall
    /\ last' = [op |-> "ParseSSNodeResponse", in |-> nodeInfoResponse,
                ret |-> ParseSSNodeResponse(client, nodeInfoResponse)]
    /\ UNCHANGED <<phase, client, requests, ncalls>>

CallReadLocalRuleList(path, file) ==
    /\ last = NoCall
    /\ last' = [op |-> "readLocalRuleList", path |-> path, file |-> file,
                ret |-> readLocalRuleList(path, file)]
    /\ UNCHANGED <<phase, client, requests, ncalls>>

NextParsers ==
    \/ \E path \in RequestPaths, out \in ClassifierOutcomes : CallParseResponse(path, out)
    \/ \E userInfoResponse \in BoundedSeq(UserResponses, MaxUsers) :
          CallParseUserListResponse(userInfoResponse)
    \/ \E nodeInfoResponse \in NodeInfoResponses : CallParseSSNodeResponse(nodeInfoResponse)
    \/ \E path \in Paths, file \in Files : CallReadLocalRuleList(path, file)

SpecParsers == InitParsers /\ [][NextParsers]_vars

---------------------------------------------------------------------------
(* Properties *)

\* v Mbit/s in bytes per second, v*1_000_000/8 truncated, for v = n/SpeedScale
BytesPerSec(n) == (n * 125000) \div SpeedScale

PanelOps ==
    {"GetNodeInfo", "GetUserList", "ReportNodeStatus", "ReportNodeOnlineUsers",
     "ReportUserTraffic"}

PathOf(op) ==
    CASE op = "GetNodeInfo" -> "/api/node/config"
      [] op = "GetUserList" -> "/api/node/user"
      [] op = "ReportNodeStatus" -> "/api/node/status"
      [] op = "ReportNodeOnlineUsers" -> "/api/node/user/online"
      [] op = "ReportUserTraffic" -> "/api/node/user/traffic"

\* C1: without a transport error parseResponse returns the body and no error
\* for status 200, the bad-request, unauthorized and forbidden errors without
\* payload for 400, 401 and 403, and for every other status the generic error
\* carrying that status code and the body; exactly one of payload and error
\* is non-nil.
C1_Classification ==
    (last.op = "parseResponse" /\ last.out.err = Nil) =>
        LET res == last.out.res
            ret == last.ret
            url == APIHost \o last.path
        IN /\ res.StatusCode = 200 => ret = [data |-> res.Body, err |-> Nil]
           /\ res.StatusCode = 400 =>
                ret = [data |-> Nil,
                       err |-> [kind |-> "bad request", url |-> url, body |-> res.Body]]
           /\ res.StatusCode = 401 =>
                ret = [data |-> Nil,
                       err |-> [kind |-> "unauthorized", url |-> url, body |-> res.Body]]
           /\ res.StatusCode = 403 =>
                ret = [data |-> Nil,
                       err |-> [kind |-> "forbidden", url |-> url, body |-> res.Body]]
           /\ res.StatusCode \notin {200, 400, 401, 403} =>
                ret = [data |-> Nil,
                       err |-> [kind |-> "status code", url |-> url,
                                status |-> res.StatusCode, body |-> res.Body]]
           /\ (ret.data = Nil) # (ret.err = Nil)

C1_Witness ==
    /\ last.op = "parseResponse"
    /\ last.out.err = Nil
    /\ last.out.res.StatusCode = 403
    /\ last.ret.err.kind = "forbidden"

\* C2: in every operation that contacts the panel a transport error comes
\* back as the classifier's connectivity failure naming host and path, never
\* as the raw transport error.
C2_TransportErrorClassified ==
    (last.op \in PanelOps /\ last.out.err # Nil) =>
        last.ret.err = [kind |-> "request failed",
                        url |-> APIHost \o PathOf(last.op),
                        cause |-> last.out.err]

\* C3: GetNodeInfo returns either a descriptor and no error, or no descriptor
\* and an error; never nil with a nil error.
C3_DescriptorOrError ==
    last.op = "GetNodeInfo" =>
        (last.ret.nodeInfo = Nil) # (last.ret.err = Nil)

\* C4: every parsed user's speed limit is the positive speed override, else
\* the user's panel speed limit, converted to bytes per second; its device
\* limit is the positive device override, else the user's panel device
\* limit; each choice looks at its own override only.
C4_UserLimits ==
    last.op = "ParseUserListResponse" =>
        \A i \in 1..Len(last.in) :
            LET user == last.in[i]
                info == last.ret.userList.val[i]
            IN /\ info.SpeedLimit =
                    IF client.SpeedLimit > 0
                    THEN BytesPerSec(client.SpeedLimit)
                    ELSE BytesPerSec(user.SpeedLimit)
               /\ info.DeviceLimit =
                    IF client.DeviceLimit > 0
                    THEN client.DeviceLimit
                    ELSE user.DeviceLimit

\* a positive speed override below the panel value beside no device override
C4_Witness ==
    /\ last.op = "ParseUserListResponse"
    /\ client.SpeedLimit = 1
    /\ client.DeviceLimit = 0
    /\ Len(last.in) >= 1
    /\ last.in[1].SpeedLimit = 2 * SpeedScale
    /\ last.in[1].DeviceLimit = 5
    /\ last.ret.userList.val[1].SpeedLimit = BytesPerSec(1)
    /\ last.ret.userList.val[1].DeviceLimit = 5

\* C5: the parsed user list is as long as the input, and the record at i is
\* what the parser makes of input i alone: UID is its id, Passwd and UUID
\* are its credential.
C5_Positional ==
    last.op = "ParseUserListResponse" =>
        /\ ~last.ret.panic
        /\ last.ret.err = Nil
        /\ Len(last.ret.userList.val) = Len(last.in)
        /\ \A i \in 1..Len(last.in) :
              LET info == last.ret.userList.val[i] IN
              /\ info.UID = last.in[i].ID
              /\ info.Passwd = last.in[i].Passwd
              /\ info.UUID = last.in[i].Passwd
              /\ info = ParseUserListResponse(client, Ptr(<<last.in[i]>>)).userList.val[1]

\* two different users, the first with a panel device limit, the second with none
C5_Witness ==
    /\ last.op = "ParseUserListResponse"
    /\ client.DeviceLimit = 0
    /\ Len(last.in) >= 2
    /\ last.in[1].ID # last.in[2].ID
    /\ last.in[1].DeviceLimit = 5
    /\ last.in[2].DeviceLimit = 0
    /\ last.ret.userList.val[2].DeviceLimit = 0

\* C6: the Shadowsocks descriptor copies port, cipher method and server key,
\* has transport protocol "tcp", and its speed limit is the positive override
\* or else the payload's value, converted to bytes per second (100 Mbit/s with
\* no override is 12_500_000), the same value user parsing gives.
C6_SSDescriptor ==
    last.op = "ParseSSNodeResponse" =>
        LET r == last.in
            info == last.ret.nodeInfo
            asUser == [ID |-> 1, Passwd |-> "pw1", SpeedLimit |-> r.SpeedLimit,
                       DeviceLimit |-> 0]
        IN /\ last.ret.err = Nil
           /\ info.Port = r.Port
           /\ info.CypherMethod = r.Method
           /\ info.ServerKey = r.ServerKey
           /\ info.TransportProtocol = "tcp"
           /\ info.SpeedLimit =
                IF client.SpeedLimit > 0
                THEN BytesPerSec(client.SpeedLimit)
                ELSE BytesPerSec(r.SpeedLimit)
           /\ (client.SpeedLimit <= 0 /\ r.SpeedLimit = 100 * SpeedScale) =>
                info.SpeedLimit = 12500000
           /\ info.SpeedLimit =
                ParseUserListResponse(client, Ptr(<<asUser>>)).userList.val[1].SpeedLimit

C6_Witness ==
    /\ last.op = "ParseSSNodeResponse"
    /\ client.SpeedLimit = 0
    /\ last.in.Port = 8443
    /\ last.in.SpeedLimit = 100 * SpeedScale
    /\ last.ret.nodeInfo.SpeedLimit = 12500000

\* C7: the process ends only on an invalid pattern line of the rule file;
\* every other failure is returned to the caller.
C7_OnlyPatternIsFatal ==
    phase = "terminated" => last.exit = "panic: regexp"

\* C8 as stated: New returns nil when the node type is not shadowsocks,
\* v2ray or trojan, and a client whenever it is, whatever the other fields.
C8_ClientIffSupported ==
    last.op = "New" =>
        /\ last.exit = "return"
        /\ (last.ret = Nil) <=>
              (ToLower(last.apiConfig.NodeType) \notin {"shadowsocks", "v2ray", "trojan"})

\* C8: New returns nil when the lower-cased node type is not shadowsocks,
\* v2ray or trojan; when it is, New returns a client holding the
\* configuration's fields unless loading the rule file ends the process,
\* which happens exactly when the path is set, the file opens and a line is
\* no valid pattern or the scan stops on a read error.
C8_ClientUnlessLoaderAborts ==
    last.op = "New" =>
        LET cfg == last.apiConfig
            file == last.file
            aborts == /\ cfg.RuleListPath # ""
                      /\ ~file.openErr
                      /\ \/ \E i \in 1..Len(file.lines) : file.lines[i] \in InvalidPatterns
                         \/ file.scanErr
        IN IF ToLower(cfg.NodeType) \notin {"shadowsocks", "v2ray", "trojan"}
           THEN last.exit = "return" /\ last.ret = Nil /\ phase = "noclient"
           ELSE IF aborts
           THEN last.exit # "return" /\ phase = "terminated"
           ELSE /\ last.exit = "return"
                /\ phase = "ready"
                /\ last.ret # Nil
                /\ last.ret.NodeType = cfg.NodeType
                /\ last.ret.SpeedLimit = cfg.SpeedLimit
                /\ last.ret.DeviceLimit = cfg.DeviceLimit

\* a capitalised supported type with a timeout, overrides and a rule file
C8_Witness ==
    /\ last.op = "New"
    /\ last.apiConfig.NodeType = "Trojan"
    /\ last.apiConfig.Timeout = 10
    /\ last.apiConfig.SpeedLimit > 0
    /\ last.apiConfig.RuleListPath # ""
    /\ phase = "ready"
    /\ Len(client.LocalRuleList) = 2

\* C9: the loader returns no rule and opens nothing for an empty path, no
\* rule for a file that cannot be opened, and for a file it reads one rule
\* with identifier -1 per non-empty line, in file order.
C9_RulePerNonEmptyLine ==
    last.op = "readLocalRuleList" =>
        LET file == last.file
            nonEmpty == SelectSeq(file.lines, LAMBDA l : l # "")
        IN /\ last.path = "" =>
                last.ret = [exit |-> "return", rules |-> <<>>, opened |-> FALSE]
           /\ (last.path # "" /\ file.openErr) =>
                (last.ret.exit = "return" /\ last.ret.rules = <<>>)
           /\ (last.path # "" /\ ~file.openErr /\ last.ret.exit = "return") =>
                last.ret.rules =
                    [i \in 1..Len(nonEmpty) |->
                        [ID |-> -1, Pattern |-> [expr |-> nonEmpty[i]]]]

\* C10: every call of ReportNodeStatus, ReportNodeOnlineUsers and
\* ReportUserTraffic hands exactly one request to the transport, whatever
\* its input and whatever comes back; GetNodeRule and ReportIllegal hand
\* none, and GetNodeRule returns the client's rule list, which no call
\* changes, with no error.
C10_RequestsPerCall ==
    [][ncalls' = ncalls + 1 =>
        /\ client' = client
        /\ last'.op \in {"ReportNodeStatus", "ReportNodeOnlineUsers", "ReportUserTraffic"} =>
              /\ Len(requests') = Len(requests) + 1
              /\ SubSeq(requests', 1, Len(requests)) = requests
              /\ requests'[Len(requests')].method = "POST"
              /\ requests'[Len(requests')].path = PathOf(last'.op)
        /\ last'.op \in {"GetNodeRule", "ReportIllegal"} => requests' = requests
        /\ last'.op = "GetNodeRule" =>
              last'.ret = [ruleList |-> Ptr(client.LocalRuleList), err |-> Nil]
      ]_vars

\* a second report, of no online user, answered with a failure
C10_Witness ==
    /\ ncalls = 2
    /\ last.op = "ReportNodeOnlineUsers"
    /\ last.in = <<>>
    /\ last.ret.err # Nil
    /\ Len(requests) = 2
    /\ requests[2].path = "/api/node/user/online"


\* C11: on a client that New returned, a GetNodeInfo that receives status 200
\* with a well-formed node payload reaches one of the three parsers and never
\* fails with the unsupported-node-type error.
C11_DispatchAgreesWithNew ==
    (/\ last.op = "GetNodeInfo"
     /\ client # Nil
     /\ last.out.err = Nil
     /\ last.out.res.StatusCode = 200
     /\ last.out.res.Body.tag = "object") =>
        last.ret.err.kind # "unsupported Node type"

====
